---- MODULE Spec2Model ----
(***************************************************************************)
(* A model of the Club Hub HTTP service (src/app.py): four handlers that   *)
(* each open their own SQLite connection to the single table `club`, and   *)
(* the static home route.  A handler is modelled statement by statement:   *)
(* connect, SELECT, INSERT/DELETE, commit+close+return.  The store is the  *)
(* committed table, the committed AUTOINCREMENT counter, and the one write *)
(* transaction SQLite allows at a time.                                    *)
(***************************************************************************)
EXTENDS Integers, Sequences, FiniteSets, TLC

\* ------------------------------------------------------------------ bounds

\* Largest row id the model lets the store assign.
MaxId == 2

\* The request workers of the host (requests served in parallel).
Procs == {"w1", "w2"}

Ids == 1..MaxId

\* ------------------------------------------------------------ JSON values

\* A JSON value is <<kind, n>>: "absent" (the key is missing), "null",
\* "text" (the n-th non-numeric string; 0 is the empty string), "numtext"
\* (the string that is the decimal numeral of n), "int" (the integer n) and
\* "list" (an array or object, which sqlite3 cannot bind).
Absent == <<"absent", 0>>

Null == <<"null", 0>>

EmptyStr == <<"text", 0>>

Zero == <<"int", 0>>

JText(n) == <<"text", n>>

JNumText(n) == <<"numtext", n>>

JInt(n) == <<"int", n>>

JList == <<"list", 0>>

Kind(v) == v[1]

\* A JSON object body of POST /clubs, by its four keys.
Obj(n, d, m, i) == [name |-> n, description |-> d, memberCount |-> m, image |-> i]

\* The request bodies tried: JSON objects.
Objects ==
  { Obj(JText(1), Absent, Absent, Absent),       \* {"name":"a"}
    Obj(JText(2), Null, JInt(12), JText(4)),     \* {"name":"b","description":null,"memberCount":12,"image":"i"}
    Obj(JInt(5), Absent, JNumText(12), Absent),   \* {"name":5,"memberCount":"12"}
    Obj(Null, Absent, Absent, Absent),          \* {"name":null}
    Obj(JText(1), JList, Absent, Absent),         \* {"name":"a","description":[1]}
    Obj(Absent, Absent, Absent, Absent),        \* {}
    Obj(Absent, JText(3), Absent, Absent) }      \* {"description":"d"}

\* A request body: a JSON object, the JSON literal null, bytes that are not
\* JSON, or no JSON body at all.
Body(kind, obj) == [kind |-> kind, obj |-> obj]

NoObj == Obj(Absent, Absent, Absent, Absent)

NoBody == Body("none", NoObj)

Bodies ==
  { Body("object", o) : o \in Objects }
    \cup { Body("null", NoObj), Body("malformed", NoObj), Body("omitted", NoObj) }

\* --------------------------------------------------------------- the store

\* Column affinity of the CREATE TABLE statement: a TEXT column stores a
\* numeric value as its text; an INTEGER column stores a well-formed
\* numeral as the integer.  Everything else is stored as given.
TextAffinity(v) == IF Kind(v) = "int" THEN JNumText(v[2]) ELSE v

IntegerAffinity(v) == IF Kind(v) = "numtext" THEN JInt(v[2]) ELSE v

\* sqlite3 binds None, int, float, str and bytes; a list or dict raises.
Bindable(v) == Kind(v) # "list"

Row(id, n, d, m, i) ==
  [id |-> id, name |-> TextAffinity(n), description |-> TextAffinity(d),
   memberCount |-> IntegerAffinity(m), image |-> TextAffinity(i)]

EmptyTable == [i \in {} |-> Row(0, Null, Null, Null, Null)]

MaxOf(S) == IF S = {} THEN 0 ELSE CHOOSE x \in S : \A y \in S : y <= x

Larger(a, b) == IF a >= b THEN a ELSE b

\* A plain INTEGER PRIMARY KEY: one more than the largest id in the table.
NextRowIdNoAutoincrement(tbl, s) == MaxOf(DOMAIN tbl) + 1

\* INTEGER PRIMARY KEY AUTOINCREMENT: one more than the largest id the
\* table has ever held (sqlite_sequence), never a deleted one.
NextRowId(tbl, s) == Larger(s, MaxOf(DOMAIN tbl)) + 1

\* INSERT INTO club (name, description, memberCount, image) VALUES (?,?,?,?)
InsertRow(tbl, id, n, d, m, i) ==
  [k \in DOMAIN tbl \cup {id} |-> IF k = id THEN Row(id, n, d, m, i) ELSE tbl[k]]

DeleteWhereIdTruncates(tbl, id) == IF id \in DOMAIN tbl THEN EmptyTable ELSE tbl

DeleteWhereIdKeeps(tbl, id) == tbl

\* DELETE FROM club WHERE id = ?   (no row with that id: nothing happens)
DeleteWhereId(tbl, id) == [k \in DOMAIN tbl \ {id} |-> tbl[k]]

SelectWhereIdAny(tbl, id) ==
  IF DOMAIN tbl = {} THEN <<>> ELSE <<tbl[MaxOf(DOMAIN tbl)]>>

\* SELECT * FROM club WHERE id = ?  then fetchone(): <<>> is None.
SelectWhereId(tbl, id) == IF id \in DOMAIN tbl THEN <<tbl[id]>> ELSE <<>>

RECURSIVE RowsFrom(_, _)
RowsFrom(tbl, k) ==
  IF k > MaxOf(DOMAIN tbl) THEN <<>>
  ELSE (IF k \in DOMAIN tbl THEN <<tbl[k]>> ELSE <<>>) \o RowsFrom(tbl, k + 1)

SelectAllFromSecond(tbl) == RowsFrom(tbl, 2)

\* SELECT * FROM club  then fetchall(): every row, in rowid order.
SelectAll(tbl) == RowsFrom(tbl, 1)

\* ------------------------------------------------------------------- state

VARIABLES
  table,      \* the committed rows of club: a function from row id to row
  seq,        \* the committed sqlite_sequence entry of club
  writer,     \* who holds SQLite's write lock: a worker, "leaked" or "none"
  txTable,    \* the rows as the open write transaction sees them
  txSeq,      \* sqlite_sequence as the open write transaction sees it
  pc,         \* per worker: the statement its handler is about to run
  req,        \* per worker: the request it serves
  lastrowid,  \* per worker: cursor.lastrowid of its INSERT
  last,       \* what the step just taken returned: request, response, connection
  origin,     \* history: row id -> the JSON object a 201 Create was given
  del200,     \* history: row id -> how many Deletes of it answered 200
  removed,    \* history: row id -> how many committed DELETEs removed its row
  assigned,   \* history: the club_ids of 201 responses, in commit order
  afterMaxDelete, \* history: a Create committed after the largest id was deleted
  raced       \* history: workers whose Delete checked beside another's check

vars ==
  <<table, seq, writer, txTable, txSeq, pc, req, lastrowid, last,
    origin, del200, removed, assigned, afterMaxDelete, raced>>

store == <<table, seq, writer, txTable, txSeq>>

history == <<origin, del200, removed, assigned, afterMaxDelete>>

\* -------------------------------------------------------------- responses

Request(op, id, body) == [op |-> op, id |-> id, body |-> body]

NoRequest == Request("none", 0, NoBody)

\* What jsonify(...) and the status code carry.  `success` is "absent" for
\* the bodies that have no such key (the list, the home page).
Response(status, success, error, club_id, data) ==
  [status |-> status, success |-> success, error |-> error,
   club_id |-> club_id, data |-> data]

NoResponse == Response(0, "absent", "", 0, <<>>)

CaughtAsBadRequest(e) == Response(400, "false", e, 0, <<>>)

\* except Exception as e: return jsonify({'success': False, 'error': str(e)}), 500
Caught(e) == Response(500, "false", e, 0, <<>>)

NotFound == Response(404, "false", "Club not found", 0, <<>>)

NameRequired == Response(400, "false", "Name is required", 0, <<>>)

\* The messages of the exceptions the store raises when it is unavailable.
StoreErrors == {"unable to open database file", "disk I/O error", "database is locked"}

\* ------------------------------------------------------------- the handlers

\* No handler returned in the step just taken.
NoReturn == [req |-> NoRequest, resp |-> NoResponse, conn |-> "none", raced |-> FALSE]

\* The response of the last return has been written to the client.
Delivered == last = NoReturn

\* The workers that serve no request.
Idle == {p \in Procs : pc[p] = "idle"}

\* The host hands an incoming request to a free worker.  The workers are
\* interchangeable, so which free one it takes does not matter.
Dispatch == CHOOSE p \in Idle : TRUE

\* Worker p is the one that takes the next request.
Free(p) == Delivered /\ pc[p] = "idle" /\ p = Dispatch

\* Worker p is about to run the statement at `label`.
At(p, label) == Delivered /\ pc[p] = label

\* The handler of request r returns response rsp, its connection in state c
\* ("none": never opened, "open", "closed"); the worker is free again.
Return(p, r, rsp, c) ==
  /\ pc' = [pc EXCEPT ![p] = "idle"]
  /\ req' = [req EXCEPT ![p] = NoRequest]
  /\ last' = [req |-> r, resp |-> rsp, conn |-> c, raced |-> p \in raced]
  /\ raced' = raced \ {p}

\* The handler of request r moves on to its next statement.
Goto(p, r, label) ==
  /\ pc' = [pc EXCEPT ![p] = label]
  /\ req' = [req EXCEPT ![p] = r]
  /\ last' = NoReturn

\* The store raises (I/O error, the file cannot be opened, a busy commit):
\* the handler's except block answers.
Fault(p, r, e, c) == Return(p, r, Caught(e), c)

\* home(): the static description of the API.
home(p) ==
  /\ Free(p)
  /\ Return(p, Request("info", 0, NoBody), Response(200, "absent", "", 0, <<>>), "none")
  /\ UNCHANGED <<store, lastrowid, history>>

\* get_clubs(): connect, SELECT * FROM club, close, return the rows
get_clubs(p) ==
  /\ Free(p)
  /\ LET r == Request("list", 0, NoBody) IN
       \/ Fault(p, r, "unable to open database file", "none")
       \/ Fault(p, r, "disk I/O error", "open")
       \/ Return(p, r, Response(200, "absent", "", 0, SelectAll(table)), "closed")
  /\ UNCHANGED <<store, lastrowid, history>>

\* get_club(club_id): connect, SELECT by id, close, 404 or the record
get_club(p, id) ==
  /\ Free(p)
  /\ LET r == Request("get", id, NoBody) IN
       \/ Fault(p, r, "unable to open database file", "none")
       \/ Fault(p, r, "disk I/O error", "open")
       \/ LET club == SelectWhereId(table, id) IN
            IF club = <<>>
              THEN Return(p, r, NotFound, "closed")
              ELSE Return(p, r, Response(200, "true", "", 0, club), "closed")
  /\ UNCHANGED <<store, lastrowid, history>>

\* request.get_json(), line 80: the outcomes the framework can produce.  A
\* body that is not JSON raises BadRequest; a request with no JSON body
\* yields None or raises, by the framework's version; null parses to None.
Parsed(data) == [raised |-> "", none |-> FALSE, data |-> data]

ParsedNone == [raised |-> "", none |-> TRUE, data |-> NoObj]

Raised(e) == [raised |-> e, none |-> FALSE, data |-> NoObj]

get_json(body) ==
  CASE body.kind = "object" -> {Parsed(body.obj)}
    [] body.kind = "null" -> {ParsedNone}
    [] body.kind = "malformed" -> {Raised("400 Bad Request")}
    [] OTHER -> {ParsedNone, Raised("415 Unsupported Media Type")}

IsEmptyObject(o) == \A k \in DOMAIN o : o[k] = Absent

NameMissingOnlyNone(j) == j.none

\* line 83: if not data or 'name' not in data
NameMissing(j) == j.none \/ IsEmptyObject(j.data) \/ j.data.name = Absent

\* dict.get(key, default)
GetOr(v, default) == IF v = Absent THEN default ELSE v

FieldsDefaultOne(data) ==
  [name |-> GetOr(data.name, Null),
   description |-> GetOr(data.description, EmptyStr),
   memberCount |-> GetOr(data.memberCount, JInt(1)),
   image |-> GetOr(data.image, EmptyStr)]

\* lines 89-92: the four values bound to the INSERT
Fields(data) ==
  [name |-> GetOr(data.name, Null),
   description |-> GetOr(data.description, EmptyStr),
   memberCount |-> GetOr(data.memberCount, Zero),
   image |-> GetOr(data.image, EmptyStr)]

AllBindable(f) == \A k \in DOMAIN f : Bindable(f[k])

\* create_club(), lines 78-99: parse the body, require name, apply the
\* defaults, connect, and run the INSERT, which opens the write transaction.
\* Up to the INSERT the handler touches nothing shared.
create_club_execute(p, body) ==
  /\ Free(p)
  /\ LET r == Request("create", 0, body) IN
       \E j \in get_json(body) :
         IF j.raised # ""
           THEN Return(p, r, Caught(j.raised), "none") /\ UNCHANGED <<store, lastrowid>>
           ELSE IF NameMissing(j)
             THEN Return(p, r, NameRequired, "none") /\ UNCHANGED <<store, lastrowid>>
             ELSE LET f == Fields(j.data) IN
               \/ /\ Fault(p, r, "unable to open database file", "none")
                  /\ UNCHANGED <<store, lastrowid>>
               \/ /\ ~AllBindable(f)
                  /\ Return(p, r, Caught("Error binding parameter"), "open")
                  /\ UNCHANGED <<store, lastrowid>>
               \/ /\ AllBindable(f)
                  /\ writer # "none"
                  /\ Return(p, r, Caught("database is locked"), "open")
                  /\ UNCHANGED <<store, lastrowid>>
               \/ /\ AllBindable(f)
                  /\ writer = "none"
                  /\ f.name = Null
                  /\ Return(p, r, Caught("NOT NULL constraint failed: club.name"), "open")
                  /\ writer' = "leaked"
                  /\ UNCHANGED <<table, seq, txTable, txSeq, lastrowid>>
               \/ /\ AllBindable(f)
                  /\ writer = "none"
                  /\ f.name # Null
                  /\ NextRowId(table, seq) <= MaxId
                  /\ LET id == NextRowId(table, seq) IN
                       /\ txTable' = InsertRow(table, id, f.name, f.description,
                                               f.memberCount, f.image)
                       /\ txSeq' = Larger(seq, id)
                       /\ lastrowid' = [lastrowid EXCEPT ![p] = id]
                  /\ writer' = p
                  /\ Goto(p, r, "c_commit")
                  /\ UNCHANGED <<table, seq, raced>>
               \/ /\ AllBindable(f)
                  /\ Fault(p, r, "disk I/O error", "open")
                  /\ UNCHANGED <<store, lastrowid>>
  /\ UNCHANGED history

\* create_club(), lines 100-108: commit, read lastrowid, close, answer 201
create_club_commit(p) ==
  /\ At(p, "c_commit")
  /\ \/ /\ table' = txTable
        /\ seq' = txSeq
        /\ writer' = "none"
        /\ Return(p, req[p], Response(201, "true", "", lastrowid[p], <<>>), "closed")
        /\ origin' = [k \in DOMAIN origin \cup {lastrowid[p]} |->
                        IF k = lastrowid[p] THEN req[p].body.obj ELSE origin[k]]
        /\ assigned' = Append(assigned, lastrowid[p])
        /\ afterMaxDelete' = (afterMaxDelete \/ (seq > 0 /\ seq \notin DOMAIN table))
        /\ UNCHANGED <<txTable, txSeq, del200, removed>>
     \/ /\ Fault(p, req[p], "database is locked", "open")
        /\ writer' = "leaked"
        /\ UNCHANGED <<table, seq, txTable, txSeq, history>>
  /\ lastrowid' = [lastrowid EXCEPT ![p] = 0]

\* delete_club(club_id), lines 118-129: connect, the existence check, 404 if
\* there is no row
delete_club_select(p, id) ==
  /\ Free(p)
  /\ LET r == Request("delete", id, NoBody) IN
       \/ Fault(p, r, "unable to open database file", "none")
       \/ Fault(p, r, "disk I/O error", "open")
       \/ /\ SelectWhereId(table, id) = <<>>
          /\ Return(p, r, NotFound, "closed")
       \/ /\ SelectWhereId(table, id) # <<>>
          /\ Goto(p, r, "d_delete")
          /\ LET beside == {q \in Procs \ {p} : pc[q] = "d_delete" /\ req[q].id = id} IN
               raced' = IF beside = {} THEN raced ELSE raced \cup beside \cup {p}
  /\ UNCHANGED <<store, lastrowid, history>>

\* delete_club(club_id), line 132: the DELETE, which opens the write transaction
delete_club_execute(p) ==
  /\ At(p, "d_delete")
  /\ \/ /\ writer # "none"
        /\ Return(p, req[p], Caught("database is locked"), "open")
        /\ UNCHANGED store
     \/ /\ writer = "none"
        /\ txTable' = DeleteWhereId(table, req[p].id)
        /\ writer' = p
        /\ Goto(p, req[p], "d_commit")
        /\ UNCHANGED <<table, seq, txSeq, raced>>
     \/ /\ Fault(p, req[p], "disk I/O error", "open")
        /\ UNCHANGED store
  /\ UNCHANGED <<lastrowid, history>>

\* delete_club(club_id), lines 133-139: commit, close, answer 200
delete_club_commit(p) ==
  /\ At(p, "d_commit")
  /\ \/ /\ table' = txTable
        /\ writer' = "none"
        /\ Return(p, req[p], Response(200, "true", "", 0, <<>>), "closed")
        /\ del200' = [del200 EXCEPT ![req[p].id] = @ + 1]
        /\ removed' = [removed EXCEPT ![req[p].id] =
                         IF req[p].id \in DOMAIN table /\ req[p].id \notin DOMAIN txTable
                           THEN @ + 1 ELSE @]
        /\ UNCHANGED <<seq, txTable, txSeq, origin, assigned, afterMaxDelete>>
     \/ /\ Fault(p, req[p], "database is locked", "open")
        /\ writer' = "leaked"
        /\ UNCHANGED <<table, seq, txTable, txSeq, history>>
  /\ UNCHANGED lastrowid

\* A connection its handler left open is reclaimed by the garbage collector:
\* its open transaction is rolled back and the write lock released.
Finalize ==
  /\ Delivered
  /\ writer = "leaked"
  /\ writer' = "none"
  /\ txTable' = table
  /\ txSeq' = seq
  /\ last' = NoReturn
  /\ UNCHANGED <<table, seq, pc, req, lastrowid, history, raced>>

\* init_db() has run: the table exists and is empty; no request is in flight.
Init ==
  /\ table = EmptyTable
  /\ seq = 0
  /\ writer = "none"
  /\ txTable = EmptyTable
  /\ txSeq = 0
  /\ pc = [p \in Procs |-> "idle"]
  /\ req = [p \in Procs |-> NoRequest]
  /\ lastrowid = [p \in Procs |-> 0]
  /\ last = NoReturn
  /\ origin = [i \in {} |-> NoObj]
  /\ del200 = [i \in Ids |-> 0]
  /\ removed = [i \in Ids |-> 0]
  /\ assigned = <<>>
  /\ afterMaxDelete = FALSE
  /\ raced = {}

\* A request arrives and worker p runs its handler up to the handler's
\* first statement on shared state.
Start(p) ==
  \/ home(p)
  \/ get_clubs(p)
  \/ \E id \in Ids : get_club(p, id)
  \/ \E body \in Bodies : create_club_execute(p, body)
  \/ \E id \in Ids : delete_club_select(p, id)

\* Worker p runs the next statement of the handler it is in.
Continue(p) ==
  \/ create_club_commit(p)
  \/ delete_club_execute(p)
  \/ delete_club_commit(p)

\* The response a handler just returned is written to the client; no
\* statement of any handler is modelled between a return and its delivery.
Deliver ==
  /\ last # NoReturn
  /\ last' = NoReturn
  /\ UNCHANGED <<store, pc, req, lastrowid, history, raced>>

\* Requests served in parallel, as the host's workers allow.
Next ==
  \/ \E p \in Procs : Start(p) \/ Continue(p)
  \/ Finalize
  \/ Deliver

Spec == Init /\ [][Next]_vars

\* Requests served one after the other: a request starts only when no
\* other is being served.
SeqNext ==
  \/ \E p \in Procs : (Idle = Procs /\ Start(p)) \/ Continue(p)
  \/ Finalize
  \/ Deliver

SeqSpec == Init /\ [][SeqNext]_vars

\* ------------------------------------------------------------------ claims

\* A handler returns in this step (last' is its request and response).
Returned == last' # NoReturn

ReturnedOp(op) == Returned /\ last'.req.op = op

\* The store was available to the request that returned: its response is
\* not the message of a store failure.
StoreAvailable(r) == r.resp.error \notin StoreErrors

\* The ids a 201 Create returned and no 200 Delete has removed since.
Live == {i \in DOMAIN origin : del200[i] = 0}

\* The record the specification expects for a Create given the object o:
\* the supplied values, and the defaults for the optional fields not supplied.
Expected(id, o) ==
  [id |-> id, name |-> o.name,
   description |-> IF o.description = Absent THEN EmptyStr ELSE o.description,
   memberCount |-> IF o.memberCount = Absent THEN Zero ELSE o.memberCount,
   image |-> IF o.image = Absent THEN EmptyStr ELSE o.image]

\* The record as Create stored it.
Created(id) ==
  LET f == Fields(origin[id]) IN Row(id, f.name, f.description, f.memberCount, f.image)

NonNullName == {o \in Objects : Kind(o.name) \notin {"absent", "null"}}

Strings == {"text", "numtext"}

\* name is a string; description and image, where supplied, are strings or
\* null; memberCount, where supplied, is an integer or null.
WellTyped ==
  {o \in Objects :
     /\ Kind(o.name) \in Strings
     /\ Kind(o.description) \in Strings \cup {"absent", "null"}
     /\ Kind(o.memberCount) \in {"int", "absent", "null"}
     /\ Kind(o.image) \in Strings \cup {"absent", "null"}}

\* The statement of C1 for the objects in Q.
CreateThenGet(Q) ==
  /\ (/\ ReturnedOp("create")
      /\ last'.req.body.kind = "object"
      /\ last'.req.body.obj \in Q
      /\ StoreAvailable(last'))
     => (last'.resp.status = 201 /\ last'.resp.club_id \in DOMAIN table')
  /\ (/\ ReturnedOp("get")
      /\ StoreAvailable(last')
      /\ last'.req.id \in Live
      /\ origin[last'.req.id] \in Q)
     => (/\ last'.resp.status = 200
         /\ last'.resp.data = <<Expected(last'.req.id, origin[last'.req.id])>>)

\* C1 as stated: every Create given a JSON object with a non-null name (and
\* any optional fields) answers 201 with a club_id, and a later Get of that
\* id, not deleted in between, answers 200 with the supplied values and the
\* defaults for the fields not supplied.
C1_AnyNonNullName == [][CreateThenGet(NonNullName)]_vars

\* C1, amended: the same for the objects whose name is a string, whose
\* description and image are strings or null where supplied, and whose
\* memberCount is an integer or null where supplied.
C1_WellTypedRoundTrip == [][CreateThenGet(WellTyped)]_vars

\* A Get answered 200 with the defaults for a record created with name only.
C1_Witness ==
  /\ last.req.op = "get"
  /\ last.resp.status = 200
  /\ last.req.id \in DOMAIN origin
  /\ origin[last.req.id] = Obj(JText(1), Absent, Absent, Absent)
  /\ last.resp.data[1].memberCount = Zero
  /\ last.resp.data[1].description = EmptyStr

\* C2: a Create whose body is a JSON object without a name key (the empty
\* object included) answers 400 and leaves the store as it was: the table,
\* the result of List, the id counter and the write lock, so the next
\* Create is not affected.
C2_NoNameIs400 ==
  [][(/\ ReturnedOp("create")
      /\ last'.req.body.kind = "object"
      /\ last'.req.body.obj.name = Absent)
     => (/\ last'.resp.status = 400
         /\ last'.resp.success = "false"
         /\ SelectAll(table') = SelectAll(table)
         /\ UNCHANGED store)]_vars

\* The empty object was answered 400 while the table held a row.
C2_Witness ==
  /\ last.req.op = "create"
  /\ last.req.body = Body("object", NoObj)
  /\ last.resp.status = 400
  /\ DOMAIN table # {}

\* C3 as stated: a Create whose payload is absent or is not parseable JSON
\* answers 400, never 500.
C3_BadPayloadIs400 ==
  (last.req.op = "create" /\ last.req.body.kind \in {"omitted", "malformed"})
    => last.resp.status = 400

\* C4: with requests served one after the other and the store available,
\* Get(id) answers 200, success true, with the record of that id exactly
\* when a Create returned id and no Delete(id) has answered 200 since;
\* for every other id it answers 404, success false.
C4_GetIffLive ==
  [][(ReturnedOp("get") /\ StoreAvailable(last'))
     => IF last'.req.id \in Live
          THEN /\ last'.resp.status = 200
               /\ last'.resp.success = "true"
               /\ Len(last'.resp.data) = 1
               /\ last'.resp.data[1] = Created(last'.req.id)
               /\ last'.resp.data[1].id = last'.req.id
          ELSE /\ last'.resp.status = 404
               /\ last'.resp.success = "false"]_vars

\* A Get answered 404 for an id that was created and then deleted.
C4_Witness ==
  /\ last.req.op = "get"
  /\ last.resp.status = 404
  /\ last.req.id \in DOMAIN origin
  /\ del200[last.req.id] = 1

\* The table without the row of id, every other row as it was.
Without(tbl, id) == [k \in DOMAIN tbl \ {id} |-> tbl[k]]

\* C5: with requests served one after the other and the store available,
\* Delete(id) of an id without a row answers 404 and leaves the table
\* unchanged; Delete(id) of an id with a row answers 200 and removes exactly
\* that row; so a second Delete of the same id is never answered 200.
C5_DeleteIffRow ==
  [][(ReturnedOp("delete") /\ StoreAvailable(last'))
     => IF last'.req.id \in DOMAIN table
          THEN /\ last'.resp.status = 200
               /\ table' = Without(table, last'.req.id)
               /\ del200[last'.req.id] = 0
          ELSE /\ last'.resp.status = 404
               /\ table' = table]_vars

\* A second Delete of an id was answered 404.
C5_Witness ==
  /\ last.req.op = "delete"
  /\ last.resp.status = 404
  /\ del200[last.req.id] = 1

FiveFields == {"id", "name", "description", "memberCount", "image"}

\* C6: with requests served one after the other, List returns exactly one
\* entry for each record created and not deleted, none for any other id,
\* each with the five fields and the values stored at creation; and List,
\* Get and Info never change the table.
C6_ListIsLive ==
  [][/\ (ReturnedOp("list") /\ StoreAvailable(last'))
        => LET data == last'.resp.data IN
             /\ last'.resp.status = 200
             /\ Len(data) = Cardinality(Live)
             /\ \A i \in Live : \E k \in 1..Len(data) : data[k] = Created(i)
             /\ \A k \in 1..Len(data) : data[k].id \in Live /\ DOMAIN data[k] = FiveFields
     /\ (Returned /\ last'.req.op \in {"list", "get", "info"})
        => (table' = table /\ seq' = seq)]_vars

\* A List returned one record although two had been created: one was deleted.
C6_Witness ==
  /\ last.req.op = "list"
  /\ Len(last.resp.data) = 1
  /\ Cardinality(DOMAIN origin) = 2

\* C7: the club_ids of successive 201 responses strictly increase (so no two
\* are equal, and an id freed by Delete is not assigned again), also with
\* Creates in parallel; every row carries the id it was stored under, and
\* every row id was assigned by a Create.
C7_IdsMonotonic ==
  /\ \A i \in 1..Len(assigned) : \A j \in 1..Len(assigned) : i < j => assigned[i] < assigned[j]
  /\ \A i \in DOMAIN table : table[i].id = i /\ \E k \in 1..Len(assigned) : assigned[k] = i
  /\ last.resp.status = 201 => last.resp.club_id = assigned[Len(assigned)]

\* A Create was committed after the row with the largest id had been deleted.
C7_Witness == afterMaxDelete /\ Len(assigned) = 2 /\ last.resp.status = 201

\* The messages of the exceptions the handlers can meet.
ExceptionMessages ==
  StoreErrors \cup {"400 Bad Request", "415 Unsupported Media Type",
                    "Error binding parameter", "NOT NULL constraint failed: club.name"}

\* C8: an exception raised in a store-backed handler is answered 500 with
\* success false and the exception's message, and nothing else is answered
\* 500; the table and the id counter change only in a step that answers a
\* Create 201 or a Delete 200, so a request answered 500 leaves them as
\* they were, also when its connection is reclaimed later.
C8_ExceptionsAre500 ==
  [][/\ Returned =>
          /\ last'.resp.error \in ExceptionMessages
               => (last'.resp.status = 500 /\ last'.resp.success = "false")
          /\ last'.resp.status = 500
               => (last'.resp.error \in ExceptionMessages
                     /\ last'.req.op \in {"list", "get", "create", "delete"})
     /\ (table' # table \/ seq' # seq)
          => \/ ReturnedOp("create") /\ last'.resp.status = 201
             \/ ReturnedOp("delete") /\ last'.resp.status = 200]_vars

\* A Create with a null name was answered 500 with the constraint's message.
C8_Witness ==
  /\ last.req.op = "create"
  /\ last.resp.status = 500
  /\ last.resp.error = "NOT NULL constraint failed: club.name"
  /\ DOMAIN table # {}

\* C9 as stated: a request that has returned has closed the connection it
\* opened, on every exit path.
C9_ConnectionClosed == last.conn # "open"

\* C10: a Delete whose existence check ran beside another Delete's of the
\* same id, before either DELETE statement, is never answered 404; unless
\* the store fails it is answered 200, and its commit removes the row of
\* that id or, if it is gone already, nothing; no row is removed twice.
C10_RacingDeletes ==
  [][/\ (ReturnedOp("delete") /\ last'.raced)
          => /\ last'.resp.status # 404
             /\ StoreAvailable(last') => last'.resp.status = 200
             /\ last'.resp.status = 200 => table' = Without(table, last'.req.id)
     /\ \A i \in Ids : removed'[i] <= 1]_vars

\* Both racing Deletes of an id were answered 200 and one row was removed.
C10_Witness ==
  /\ last.req.op = "delete"
  /\ last.raced
  /\ last.resp.status = 200
  /\ del200[last.req.id] = 2
  /\ removed[last.req.id] = 1

====
